---- MODULE Spec2Model ----
(***************************************************************************)
(* Model of ccinput/packages/xtb.py: the XtbCalculation builder, which     *)
(* turns a calculation request into a command line for xtb / stda / crest  *)
(* and an option file holding constraints, scans and metadynamics atoms.   *)
(*                                                                         *)
(* Python strings are TLA+ strings; TLC evaluates Len, \o and SubSeq on    *)
(* them, so every textual step of the source (sanitising, replace, split,  *)
(* strip, formatting) is modelled character by character.                  *)
(***************************************************************************)
EXTENDS Integers, Sequences, FiniteSets, TLC

VARIABLES
    calc,            \* the calculation request (self.calc), read-only
    pc,              \* position inside XtbCalculation.__init__
    program,         \* self.program
    cmd_arguments,   \* self.cmd_arguments
    option_file,     \* self.option_file
    specifications,  \* self.specifications (the kind's default directives)
    force_constant,  \* self.force_constant (a float)
    command,         \* self.command
    parsed,          \* the locals of handle_specifications when it ended
    error,           \* the exception that left __init__, or NoError
    arr,             \* argument of a direct call of compress_indices
    compressed,      \* what that call returned
    directives       \* auxiliary: the directives the user's text was written from

vars == <<calc, pc, program, cmd_arguments, option_file, specifications,
          force_constant, command, parsed, error, arr, compressed, directives>>

-----------------------------------------------------------------------------
(* Python string primitives *)

Char(s, i) == SubSeq(s, i, i)

StartsAt(s, p, i) == i + Len(p) - 1 <= Len(s) /\ SubSeq(s, i, i + Len(p) - 1) = p

HasSub(s, p) == \E i \in 1..Len(s) : StartsAt(s, p, i)

Min(S) == CHOOSE x \in S : \A y \in S : x <= y
Max(S) == CHOOSE x \in S : \A y \in S : x >= y

\* str.find(p, i): the first place at or after i where p starts, 0 when none
Find(s, p, i) ==
    LET at == {j \in i..(Len(s) - Len(p) + 1) : SubSeq(s, j, j + Len(p) - 1) = p}
    IN  IF at = {} THEN 0 ELSE Min(at)

\* str.count(p): the non-overlapping occurrences, scanning left to right
RECURSIVE CountFrom(_, _, _)
CountFrom(s, p, i) ==
    LET j == Find(s, p, i)
    IN  IF j = 0 THEN 0 ELSE 1 + CountFrom(s, p, j + Len(p))

Count(s, p) == CountFrom(s, p, 1)

\* str.replace(old, new), old non-empty: leftmost non-overlapping occurrences
RECURSIVE ReplaceFrom(_, _, _, _)
ReplaceFrom(s, old, new, i) ==
    LET j == Find(s, old, i)
    IN  IF j = 0 THEN SubSeq(s, i, Len(s))
        ELSE SubSeq(s, i, j - 1) \o new \o ReplaceFrom(s, old, new, j + Len(old))

Replace(s, old, new) == ReplaceFrom(s, old, new, 1)

\* str.split(sep), sep non-empty: always at least one piece
RECURSIVE SplitFrom(_, _, _)
SplitFrom(s, sep, i) ==
    LET j == Find(s, sep, i)
    IN  IF j = 0 THEN <<SubSeq(s, i, Len(s))>>
        ELSE <<SubSeq(s, i, j - 1)>> \o SplitFrom(s, sep, j + Len(sep))

Split(s, sep) == SplitFrom(s, sep, 1)

IsSpace(c) == c \in {" ", "\n", "\t", "\r", "\f"}

\* the places of s, from i on, that hold whitespace / that do not
SpacesFrom(s, i) == {j \in i..Len(s) : IsSpace(Char(s, j))}
InkFrom(s, i) == {j \in i..Len(s) : ~IsSpace(Char(s, j))}

\* str.split(): the maximal runs of non-whitespace
RECURSIVE WordsFrom(_, _)
WordsFrom(s, i) ==
    IF InkFrom(s, i) = {} THEN <<>>
    ELSE LET a == Min(InkFrom(s, i))
             b == IF SpacesFrom(s, a) = {} THEN Len(s) + 1 ELSE Min(SpacesFrom(s, a))
         IN  <<SubSeq(s, a, b - 1)>> \o WordsFrom(s, b)

SplitWords(s) == WordsFrom(s, 1)

\* str.strip()
Strip(s) == IF InkFrom(s, 1) = {} THEN "" ELSE SubSeq(s, Min(InkFrom(s, 1)), Max(InkFrom(s, 1)))

UPPERCASE == "ABCDEFGHIJKLMNOPQRSTUVWXYZ"
LOWERCASE == "abcdefghijklmnopqrstuvwxyz"

\* the characters of s, as a set
Chars(s) == {Char(s, i) : i \in 1..Len(s)}

\* The characters the model's text is written in: ASCII, but for the backquote
\* and the control characters a TLA+ string cannot hold.  str.lower() also
\* changes cased characters outside ASCII; the model gives them no value.
ASCII == " !\"#$%&'()*+,-./0123456789:;<=>?@[\\]^_{|}~\t\n\r\f"
         \o UPPERCASE \o LOWERCASE

LowerMap == [c \in Chars(ASCII) |->
                IF c \in Chars(UPPERCASE)
                THEN Char(LOWERCASE, CHOOSE i \in 1..26 : Char(UPPERCASE, i) = c)
                ELSE c]

LowerChar(c) == LowerMap[c]

\* str.lower(), the text taken by halves
RECURSIVE Lower(_)
Lower(s) ==
    IF Len(s) = 0 THEN ""
    ELSE IF Len(s) = 1 THEN LowerChar(s)
    ELSE Lower(SubSeq(s, 1, Len(s) \div 2)) \o Lower(SubSeq(s, Len(s) \div 2 + 1, Len(s)))

\* "".join([i for i in s if i in allowed])
\* the text taken by halves
RECURSIVE Keep(_, _)
Keep(s, allowed) ==
    IF Len(s) = 0 THEN ""
    ELSE IF Len(s) = 1 THEN (IF s \in allowed THEN s ELSE "")
    ELSE Keep(SubSeq(s, 1, Len(s) \div 2), allowed)
         \o Keep(SubSeq(s, Len(s) \div 2 + 1, Len(s)), allowed)

\* sep.join(seq)
RECURSIVE Join(_, _)
Join(seq, sep) ==
    IF Len(seq) = 0 THEN ""
    ELSE IF Len(seq) = 1 THEN seq[1]
    ELSE seq[1] \o sep \o Join(Tail(seq), sep)

\* os.path.basename(path)
Basename(path) == LET parts == Split(path, "/") IN parts[Len(parts)]

-----------------------------------------------------------------------------
(* Numbers and their text *)

DIGITS == "0123456789"

DigitMap == [c \in Chars(DIGITS) |-> (CHOOSE i \in 1..10 : Char(DIGITS, i) = c) - 1]

IsDigit(c) == c \in DOMAIN DigitMap

DigitVal(c) == DigitMap[c]

AllDigits(s) == s # "" /\ \A i \in 1..Len(s) : IsDigit(Char(s, i))

RECURSIVE NatVal(_)
NatVal(s) == IF s = "" THEN 0 ELSE 10 * NatVal(SubSeq(s, 1, Len(s) - 1)) + DigitVal(Char(s, Len(s)))

RECURSIVE NatStr(_)
NatStr(n) == IF n < 10 THEN Char(DIGITS, n + 1) ELSE NatStr(n \div 10) \o Char(DIGITS, (n % 10) + 1)

\* str(n) / f"{n}" of an int
IntStr(n) == IF n < 0 THEN "-" \o NatStr(-n) ELSE NatStr(n)

HasSign(s) == Len(s) > 0 /\ Char(s, 1) \in {"-", "+"}
Unsigned(s) == IF HasSign(s) THEN SubSeq(s, 2, Len(s)) ELSE s
IsNeg(s) == Len(s) > 0 /\ Char(s, 1) = "-"

\* a digit string with its leading zeros removed
Significant(s) ==
    LET nz == {i \in 1..Len(s) : Char(s, i) # "0"}
    IN  IF nz = {} THEN "" ELSE SubSeq(s, Min(nz), Len(s))

\* sys.get_int_max_str_digits(): the longest digit string int() converts
\* (CPython 3.11; the sign is not counted, leading zeros are)
MaxStrDigits == 4300

\* int(s) succeeds (no ValueError).  s is one word of sanitised text: it holds
\* no whitespace and no underscore, the other things int() and float() allow.
IsIntLiteral(s) == AllDigits(Unsigned(s)) /\ Len(Unsigned(s)) <= MaxStrDigits

IntVal(s) ==
    IF IsNeg(s) THEN -NatVal(Significant(Unsigned(s)))
    ELSE NatVal(Significant(Unsigned(s)))

RECURSIVE Pow10(_)
Pow10(k) == IF k <= 0 THEN 1 ELSE 10 * Pow10(k - 1)

RECURSIVE PadLeft(_, _)
PadLeft(s, width) == IF Len(s) >= width THEN s ELSE PadLeft("0" \o s, width)

RECURSIVE Zeros(_)
Zeros(k) == IF k <= 0 THEN "" ELSE "0" \o Zeros(k - 1)

\* 0.a <= 0.b, for digit strings a and b
DigitsLeq(a, b) ==
    LET n == Max({Len(a), Len(b)})
        A == a \o Zeros(n - Len(a))
        B == b \o Zeros(n - Len(b))
        diff == {i \in 1..n : Char(A, i) # Char(B, i)}
    IN  diff = {} \/ DigitVal(Char(A, Min(diff))) < DigitVal(Char(B, Min(diff)))

\* A Python float (a binary double), named by the shortest decimal that reads
\* back as it: a finite value is (-1)^neg * num * 10^(-scale), with num not a
\* multiple of 10 and zero written num = 0, scale = 0.  The doubles the model
\* names are zero, the infinities, nan and the normal doubles that a decimal
\* of at most DBL_DIG digits rounds to.
RECURSIVE Normal(_)
Normal(v) ==
    IF v.kind # "fin" THEN v
    ELSE IF v.num = 0 THEN [v EXCEPT !.scale = 0]
    ELSE IF v.num % 10 = 0
    THEN Normal([v EXCEPT !.num = v.num \div 10, !.scale = v.scale - 1])
    ELSE v

Finite(neg, num, scale) ==
    Normal([kind |-> "fin", neg |-> neg, num |-> num, scale |-> scale])

Infinite(neg) == [kind |-> "inf", neg |-> neg, num |-> 0, scale |-> 0]

NaN == [kind |-> "nan", neg |-> FALSE, num |-> 0, scale |-> 0]

\* the mantissa of a decimal literal: digits, at most one point, one digit at least
IsMantissa(m) ==
    LET p == Split(m, ".")
    IN  /\ Len(p) <= 2
        /\ \A i \in 1..Len(p) : p[i] = "" \/ AllDigits(p[i])
        /\ \E i \in 1..Len(p) : p[i] # ""

IsDecimalLiteral(u) ==
    LET p == Split(u, "e")
    IN  /\ Len(p) <= 2
        /\ IsMantissa(p[1])
        /\ Len(p) = 2 => AllDigits(Unsigned(p[2]))

\* float(s) succeeds (no ValueError)
IsFloatLiteral(s) ==
    LET u == Lower(Unsigned(s))
    IN  u \in {"inf", "infinity", "nan"} \/ IsDecimalLiteral(u)

\* sys.float_info.dig: decimals of this many digits survive float() and repr()
DBL_DIG == 15

\* The edges of the double range, as the digits d of 0.d * 10^decpt.
\* From 1.7976931348623159e308 on a decimal rounds to inf (the largest double
\* is 1.7976931348623157e308, the halfway point above it 1.79769313486231580...e308).
OverflowFrom == "17976931348623159"
LargestFinite == "17976931348623157"
\* Up to 2.4703282292062327e-324 a decimal rounds to zero (half the smallest
\* double is 2.47032822920623272...e-324).
UnderflowUpTo == "24703282292062327"
\* From 2.2250738585072014e-308 on a decimal is a normal double (the smallest
\* is 2.22507385850720138...e-308).
NormalFrom == "22250738585072014"

\* The double nearest to (-1)^neg * 0.sig * 10^decpt, for digits sig that
\* neither start nor end with a zero.  No value is given to more than DBL_DIG
\* digits or to a value between zero and the normal doubles, unless it rounds
\* to inf or to zero.
Round(neg, sig, decpt) ==
    CASE decpt > 309 \/ (decpt = 309 /\ DigitsLeq(OverflowFrom, sig)) -> Infinite(neg)
      [] decpt < -323 \/ (decpt = -323 /\ DigitsLeq(sig, UnderflowUpTo)) -> Finite(neg, 0, 0)
      [] /\ Len(sig) <= DBL_DIG
         /\ decpt < 309 \/ (decpt = 309 /\ DigitsLeq(sig, LargestFinite))
         /\ decpt > -307 \/ (decpt = -307 /\ DigitsLeq(NormalFrom, sig)) ->
            Finite(neg, NatVal(sig), Len(sig) - decpt)

\* The double of the digits with the point after the first `point' of them and
\* the exponent exp; nz are the places of the digits that are not zero.
Placed(neg, digits, nz, point, exp) ==
    IF nz = {} THEN Finite(neg, 0, 0)
    ELSE Round(neg, SubSeq(digits, Min(nz), Max(nz)), point - Min(nz) + 1 + exp)

\* The double of a mantissa m (split at its point) with the exponent digits e,
\* their leading zeros removed.  The point lies within the digits, so the
\* first digit that counts stands at most Len(digits) places from 10^exp: an
\* exponent with more digits than Len(digits) + 400 has is more than
\* Len(digits) + 400 and leaves the value outside the doubles, whatever the
\* mantissa.
Scaled(neg, m, digits, eneg, e) ==
    IF Len(e) > Len(NatStr(Len(digits) + 400))
    THEN (IF eneg \/ \A i \in 1..Len(digits) : Char(digits, i) = "0"
          THEN Finite(neg, 0, 0)
          ELSE Infinite(neg))
    ELSE Placed(neg, digits, {i \in 1..Len(digits) : Char(digits, i) # "0"},
                Len(m[1]), IF eneg THEN -NatVal(e) ELSE NatVal(e))

\* The double of a decimal literal split at its "e"
Decimal(neg, p, m) ==
    Scaled(neg, m, m[1] \o (IF Len(m) = 2 THEN m[2] ELSE ""),
           Len(p) = 2 /\ IsNeg(p[2]),
           IF Len(p) = 2 THEN Significant(Unsigned(p[2])) ELSE "")

\* float(), of the lower-cased text u after the sign
FloatOfText(neg, u) ==
    IF u \in {"inf", "infinity"} THEN Infinite(neg)
    ELSE IF u = "nan" THEN NaN
    ELSE Decimal(neg, Split(u, "e"), Split(Split(u, "e")[1], "."))

\* float(s), for an s that IsFloatLiteral
FloatVal(s) == FloatOfText(IsNeg(s), Lower(Unsigned(s)))

\* the float of an int n
FloatOfInt(n) == Finite(n < 0, IF n < 0 THEN -n ELSE n, 0)

\* v == n, for a float v and an int n (nan equals nothing, -0.0 equals 0)
FloatEqInt(v, n) ==
    /\ v.kind = "fin"
    /\ v.num = FloatOfInt(n).num
    /\ v.scale = FloatOfInt(n).scale
    /\ v.num = 0 \/ v.neg = FloatOfInt(n).neg

\* floor(log2(n / d)), for n, d > 0
RECURSIVE Log2Floor(_, _)
Log2Floor(n, d) ==
    IF n >= 2 * d THEN Log2Floor(n \div 2, d) + 1
    ELSE IF n < d THEN Log2Floor(2 * n, d) - 1
    ELSE 0

\* 2^t mod m
RECURSIVE PowMod2(_, _)
PowMod2(t, m) == IF t = 0 THEN 1 % m ELSE (2 * PowMod2(t - 1, m)) % m

\* The double nearest to num / 1000 lies above it, for num not a multiple of
\* 125 (a multiple is a double itself).  The double is M * 2^(e - 52) with
\* e = floor(log2(num / 1000)) and M the integer nearest to
\* num * 2^(49 - e) / 125: it is rounded up when the remainder is over half.
DoubleAbove(num) ==
    LET e == Log2Floor(num, 1000)
        r == ((num % 125) * PowMod2(49 - e, 125)) % 125
    IN  2 * r > 125

\* num / 10^scale in hundredths, for scale > 2: rounded to the nearest, a tie
\* num / 1000 to where the double lies, to even when it is the double itself
Hundredths(num, scale, cut) ==
    IF scale - 2 > Len(NatStr(num)) THEN 0
    ELSE IF 2 * (num % cut) > cut THEN num \div cut + 1
    ELSE IF 2 * (num % cut) < cut THEN num \div cut
    ELSE IF num % 125 = 0 THEN num \div cut + ((num \div cut) % 2)
    ELSE IF DoubleAbove(num) THEN num \div cut + 1
    ELSE num \div cut

\* h hundredths, written with two decimals
TwoPlaces(h) == NatStr(h \div 100) \o "." \o PadLeft(NatStr(h % 100), 2)

\* f"{v:.2f}" of a finite v with digits S
Fixed(sign, S, num, scale) ==
    CASE scale <= 0 /\ Len(S) - scale <= 15 -> sign \o S \o Zeros(-scale) \o ".00"
      [] scale \in {1, 2} /\ Len(S) - scale <= 13 ->
            sign \o TwoPlaces(num * Pow10(2 - scale))
      [] scale > 2 /\ Len(S) - scale <= 13 ->
            sign \o TwoPlaces(Hundredths(num, scale, Pow10(scale - 2)))

\* f"{v:.2f}": two decimals, the sign kept.  Python rounds the exact value of
\* the double.  No text is given where the double's own digits would show
\* (from 10^15 on, from 10^13 on for a value with decimals).
Fmt2f(v) ==
    IF v.kind = "nan" THEN "nan"
    ELSE IF v.kind = "inf" THEN (IF v.neg THEN "-inf" ELSE "inf")
    ELSE Fixed(IF v.neg THEN "-" ELSE "", NatStr(v.num), v.num, v.scale)

\* repr() of a finite v that is not zero, with digits S, d of them, and the
\* value 0.S * 10^decpt
Shortest(sign, S, d, decpt, scale) ==
    IF decpt > 16 \/ decpt < -3
    THEN sign \o Char(S, 1) \o (IF d > 1 THEN "." \o SubSeq(S, 2, d) ELSE "")
         \o (IF decpt < 1 THEN "e-" ELSE "e+")
         \o PadLeft(NatStr(IF decpt < 1 THEN 1 - decpt ELSE decpt - 1), 2)
    ELSE IF scale <= 0 THEN sign \o S \o Zeros(-scale) \o ".0"
    ELSE IF scale >= d THEN sign \o "0." \o Zeros(scale - d) \o S
    ELSE sign \o SubSeq(S, 1, decpt) \o "." \o SubSeq(S, decpt + 1, d)

\* f"{v}" (repr): the shortest digits that read back as v, positional with one
\* decimal at least for 1e-4 <= |v| < 1e16, else d.ddde+XX
FloatStr(v) ==
    IF v.kind = "nan" THEN "nan"
    ELSE IF v.kind = "inf" THEN (IF v.neg THEN "-inf" ELSE "inf")
    ELSE IF v.num = 0 THEN (IF v.neg THEN "-0.0" ELSE "0.0")
    ELSE Shortest(IF v.neg THEN "-" ELSE "", NatStr(v.num), Len(NatStr(v.num)),
                  Len(NatStr(v.num)) - v.scale, v.scale)

-----------------------------------------------------------------------------
(* The request's vocabulary *)

\* ccinput.constants.CalcType, the kinds XtbCalculation.EXECUTABLES knows
CalcTypes == {"OPT", "CONSTR_OPT", "FREQ", "SP", "UVVIS_TDA", "OPTFREQ",
              "CONF_SEARCH", "CONSTR_CONF_SEARCH"}

ConfSearchTypes == {"CONF_SEARCH", "CONSTR_CONF_SEARCH"}

EXECUTABLES(type) ==
    CASE type \in ConfSearchTypes -> "crest"
      [] type = "UVVIS_TDA" -> "stda"
      [] OTHER -> "xtb"

NoError == [type |-> "none", msg |-> ""]
InvalidParameter(msg) == [type |-> "InvalidParameter", msg |-> msg]
ValueError(msg) == [type |-> "ValueError", msg |-> msg]

-----------------------------------------------------------------------------
(* handle_command: the executable and the kind's seed *)

SeedSpecifications(type) ==
    CASE type = "OPT" -> "--opt tight "
      [] type = "OPTFREQ" -> "--ohess tight "
      [] OTHER -> ""

SeedArguments(type) ==
    CASE type = "OPT" -> "--opt "
      [] type = "CONSTR_CONF_SEARCH" -> "-cinp input "
      [] type = "CONSTR_OPT" -> "--opt --input input "
      [] type = "FREQ" -> "--hess "
      [] OTHER -> ""

-----------------------------------------------------------------------------
(* handle_specifications: the directive parser *)

ALLOWED == Chars("qwertyuiopasdfghjklzxcvbnm-1234567890./= ")

OptLevels == {"crude", "sloppy", "loose", "lax", "normal", "tight", "vtight", "extreme"}

\* the text that is split into directives
CleanSpecs(defaults, user) ==
    Replace(Replace(Keep(defaults \o Lower(user), ALLOWED), "=", " "), "  ", " ")

Directives(defaults, user) == Split(Strip(CleanSpecs(defaults, user)), "--")

\* repr of a list of words
RECURSIVE Quoted(_)
Quoted(ss) == IF Len(ss) = 0 THEN <<>> ELSE <<"'" \o ss[1] \o "'">> \o Quoted(Tail(ss))

ListStr(ss) == "[" \o Join(Quoted(ss), ", ") \o "]"

\* the locals and fields the loop works on, before the first directive
ParserStart(args, fc) ==
    [error |-> NoError,
     accuracy |-> FloatOfInt(-1),
     iterations |-> -1,
     method |-> "gfn2-xtb",
     opt_level |-> "tight",
     rthr |-> "0.6",
     ewin |-> "6",
     cmd_arguments |-> args,
     force_constant |-> fc]

Raise(st, e) == [st EXCEPT !.error = e]

\* a directive of one word
SingleWord(st, w, type) ==
    IF w \in {"gfn2", "gfn1", "gfn0", "gfnff", "gfn2//gfnff"}
    THEN IF w = "gfn2//gfnff" /\ type \notin ConfSearchTypes
         THEN Raise(st, InvalidParameter("Invalid method for calculation type: " \o w))
         ELSE IF w \in {"gfn2", "gfn1", "gfn0"}
         THEN [st EXCEPT !.method = SubSeq(w, 1, Len(w) - 1) \o " " \o Char(w, Len(w))]
         ELSE [st EXCEPT !.method = w]
    ELSE IF w \in {"nci", "quick", "squick", "mquick"}
    THEN [st EXCEPT !.cmd_arguments = @ \o "--" \o w \o " "]
    ELSE Raise(st, InvalidParameter("Invalid specification"))

\* accuracy = float(ss[1]), outside any try
ParseAcc(st, v) ==
    IF IsFloatLiteral(v)
    THEN [st EXCEPT !.accuracy = FloatVal(v)]
    ELSE Raise(st, ValueError("could not convert string to float: '" \o v \o "'"))

ParseIterations(st, v) ==
    IF IsIntLiteral(v)
    THEN [st EXCEPT !.iterations = IntVal(v)]
    ELSE Raise(st, InvalidParameter("Invalid number of iterations: must be an integer"))

ParseForceConstant(st, v) ==
    IF IsFloatLiteral(v)
    THEN [st EXCEPT !.force_constant = FloatVal(v)]
    ELSE Raise(st, InvalidParameter("Invalid force constant: must be a floating point value"))

\* a directive of two words
DoubleWord(st, k, v, type) ==
    IF k \in {"o", "opt"}
    THEN IF v \notin OptLevels
         THEN Raise(st, InvalidParameter("Invalid optimization specification"))
         ELSE [st EXCEPT !.opt_level = v]
    ELSE IF k \in {"rthr", "ewin"}
    THEN IF type \notin ConfSearchTypes
         THEN Raise(st, InvalidParameter("Invalid specification for calculation type: " \o k))
         ELSE IF k = "rthr" THEN [st EXCEPT !.rthr = v] ELSE [st EXCEPT !.ewin = v]
    ELSE IF k = "acc" THEN ParseAcc(st, v)
    ELSE IF k = "iterations" THEN ParseIterations(st, v)
    ELSE IF k = "forceconstant" THEN ParseForceConstant(st, v)
    ELSE IF k = "gfn"
    THEN IF v \notin {"0", "1", "2"}
         THEN Raise(st, InvalidParameter("Invalid GFN version"))
         ELSE [st EXCEPT !.method = k \o " " \o v]
    ELSE Raise(st, InvalidParameter("Unknown specification: " \o k))

\* the body of "for spec in specs"
ParseSpec(st, spec, type) ==
    LET ss == SplitWords(Strip(spec))
    IN  IF Strip(spec) = "" THEN st
        ELSE IF Len(ss) = 1 THEN SingleWord(st, ss[1], type)
        ELSE IF Len(ss) = 2 THEN DoubleWord(st, ss[1], ss[2], type)
        ELSE Raise(st, InvalidParameter("Invalid specification: " \o ListStr(ss)))

\* the loop: the first exception ends it
RECURSIVE ParseSpecs(_, _, _, _)
ParseSpecs(st, specs, i, type) ==
    IF i > Len(specs) \/ st.error # NoError THEN st
    ELSE ParseSpecs(ParseSpec(st, specs[i], type), specs, i + 1, type)

AppendAccuracy(st) ==
    IF ~FloatEqInt(st.accuracy, -1)
    THEN [st EXCEPT !.cmd_arguments = @ \o "--acc " \o Fmt2f(st.accuracy) \o " "]
    ELSE st

AppendIterations(st) ==
    IF st.iterations # -1
    THEN [st EXCEPT !.cmd_arguments = @ \o "--iterations " \o IntStr(st.iterations) \o " "]
    ELSE st

\* the method emitted even when it is the default
AppendMethodAlways(st) == [st EXCEPT !.cmd_arguments = @ \o "--" \o st.method \o " "]

AppendMethod(st) ==
    IF st.method # "gfn2-xtb" /\ st.method # "gfn 2"
    THEN [st EXCEPT !.cmd_arguments = @ \o "--" \o st.method \o " "]
    ELSE st

\* the level appended as a second --opt, not patched into the first
SubstituteOptLevelAppend(st) ==
    IF st.opt_level # "normal"
    THEN [st EXCEPT !.cmd_arguments = @ \o "--opt " \o st.opt_level \o " "]
    ELSE st

SubstituteOptLevel(st) ==
    IF st.opt_level # "normal"
    THEN [st EXCEPT !.cmd_arguments = Replace(@, "--opt ", "--opt " \o st.opt_level \o " ")]
    ELSE st

SingleDash(st, type) ==
    IF type \in ConfSearchTypes
    THEN [st EXCEPT !.cmd_arguments =
              Replace(@ \o "--rthr " \o st.rthr \o " --ewin " \o st.ewin \o " ", "--", "-")]
    ELSE st

\* what follows the loop
Finalize(st, type) ==
    SingleDash(SubstituteOptLevel(AppendMethod(AppendIterations(AppendAccuracy(st)))), type)

\* handle_specifications as a function of the fields it reads
ParseAll(defaults, user, args, fc, type) ==
    LET st == ParseSpecs(ParserStart(args, fc), Directives(defaults, user), 1, type)
    IN  IF st.error # NoError THEN st ELSE Finalize(st, type)

-----------------------------------------------------------------------------
(* compress_indices: a collection of atom indices as runs "first-last" *)

add_to_str(curr) ==
    IF Len(curr) = 0 THEN ""
    ELSE IF Len(curr) = 1 THEN IntStr(curr[1])
    ELSE IntStr(curr[1]) \o "-" \o IntStr(curr[Len(curr)])

SeqToSet(seq) == {seq[i] : i \in 1..Len(seq)}

\* sorted(set)
RECURSIVE Sorted(_)
Sorted(S) ==
    IF S = {} THEN <<>>
    ELSE <<Min(S)>> \o Sorted(S \ {Min(S)})

\* a comparison that forgets the "+ 1": any larger value extends the run
ExtendsRunLoose(curr_atoms, a) == a > curr_atoms[Len(curr_atoms)]

\* whether the value a extends the open run curr_atoms
ExtendsRun(curr_atoms, a) == a = curr_atoms[Len(curr_atoms)] + 1

\* the loop "for a in _arr" and the append that follows it
RECURSIVE CompressLoop(_, _, _, _)
CompressLoop(_arr, i, comp, curr_atoms) ==
    IF i > Len(_arr) THEN Append(comp, add_to_str(curr_atoms))
    ELSE IF Len(curr_atoms) = 0
         THEN CompressLoop(_arr, i + 1, comp, <<_arr[i]>>)
    ELSE IF ExtendsRun(curr_atoms, _arr[i])
         THEN CompressLoop(_arr, i + 1, comp, Append(curr_atoms, _arr[i]))
    ELSE CompressLoop(_arr, i + 1, Append(comp, add_to_str(curr_atoms)), <<_arr[i]>>)

compress_indices(a) == Join(CompressLoop(Sorted(SeqToSet(a)), 1, <<>>, <<>>), ",")

-----------------------------------------------------------------------------
(* The constraint encoders *)

\* Constraint.to_xtb of ccinput.calc: the constraint's own line
to_xtb(cmd) ==
    LET ids == [i \in 1..Len(cmd.ids) |-> IntStr(cmd.ids[i])]
        name == CASE Len(cmd.ids) = 2 -> "distance"
                  [] Len(cmd.ids) = 3 -> "angle"
                  [] OTHER -> "dihedral"
    IN  name \o ": " \o Join(ids, ", ") \o ", auto\n"

RECURSIVE ConstraintLines(_)
ConstraintLines(cs) == IF Len(cs) = 0 THEN "" ELSE to_xtb(cs[1]) \o ConstraintLines(Tail(cs))

\* the bare counter of enumerate, which starts at 0
ScanLabelFromZero(i) == i - 1

\* the counter written in front of the scan line of constraints[i]
ScanLabel(i) == i

\* the $scan lines of constraints[i..]
RECURSIVE ScanLines(_, _)
ScanLines(cs, i) ==
    IF i > Len(cs) THEN ""
    ELSE (IF cs[i].scan
          THEN IntStr(ScanLabel(i)) \o ": " \o IntStr(cs[i].start_d) \o ", "
               \o IntStr(cs[i].end_d) \o ", " \o IntStr(cs[i].num_steps) \o "\n"
          ELSE "")
         \o ScanLines(cs, i + 1)

HasScan(cs) == \E i \in 1..Len(cs) : cs[i].scan

\* handle_constraints_scan: what it appends to option_file
ScanOptions(cs, fc) ==
    IF Len(cs) = 0 THEN ""
    ELSE "$constrain\n" \o "force constant=" \o FloatStr(fc) \o "\n"
         \o ConstraintLines(cs)
         \o (IF HasScan(cs) THEN "$scan\n" \o ScanLines(cs, 1) ELSE "")

\* constr_atoms: the ids of all constraints, in order, duplicates kept
RECURSIVE ConstrAtoms(_)
ConstrAtoms(cs) == IF Len(cs) = 0 THEN <<>> ELSE cs[1].ids \o ConstrAtoms(Tail(cs))

\* list.remove(a): the first occurrence
RECURSIVE RemoveFirst(_, _)
RemoveFirst(seq, a) ==
    IF Len(seq) = 0 THEN <<>>
    ELSE IF seq[1] = a THEN Tail(seq)
    ELSE <<seq[1]>> \o RemoveFirst(Tail(seq), a)

\* the loop "for a in constr_atoms" over mtd_atoms
RECURSIVE MtdAtoms(_, _)
MtdAtoms(mtd_atoms, constr_atoms) ==
    IF Len(constr_atoms) = 0 THEN mtd_atoms
    ELSE MtdAtoms(IF constr_atoms[1] \in SeqToSet(mtd_atoms)
                  THEN RemoveFirst(mtd_atoms, constr_atoms[1])
                  ELSE mtd_atoms,
                  Tail(constr_atoms))

\* the line breaks counted, not the lines
NumAtomsByBreaks(xyz) == Count(xyz, "\n")

\* len(xyz.split("\n"))
NumAtoms(xyz) == Len(Split(xyz, "\n"))

\* handle_constraints_crest: what it appends to option_file
CrestOptions(cs, fc, xyz, file) ==
    LET num_atoms == NumAtoms(xyz)
        constr_atoms == ConstrAtoms(cs)
        mtd_atoms == MtdAtoms([i \in 1..(num_atoms - 1) |-> i], constr_atoms)
    IN  "$constrain\n" \o "force constant=" \o FloatStr(fc) \o "\n"
        \o "reference=" \o Basename(file) \o "\n"
        \o ConstraintLines(cs)
        \o "atoms: " \o compress_indices(constr_atoms) \o "\n"
        \o "$metadyn\n"
        \o "atoms: " \o compress_indices(mtd_atoms) \o "\n"

-----------------------------------------------------------------------------
(* handle_parameters and create_command *)

\* ccinput.utilities.get_solvent for xtb: the solvents it knows
KnownSolvents == {"water", "methanol"}

get_solvent(solvent) == IF solvent = "water" THEN "h2o" ELSE solvent

SolventArguments(solvent, model) ==
    IF solvent = "" THEN ""
    ELSE IF model = "gbsa" THEN "-g " \o get_solvent(solvent) \o " "
    ELSE "--alpb " \o get_solvent(solvent) \o " "

ParametersError(solvent, model) ==
    IF solvent = "" THEN NoError
    ELSE IF solvent \notin KnownSolvents THEN InvalidParameter("Invalid solvent")
    ELSE IF model \notin {"gbsa", "alpb"}
    THEN InvalidParameter("Invalid solvation method for xtb: " \o model)
    ELSE NoError

ChargeArguments(charge) == IF charge # 0 THEN "--chrg " \o IntStr(charge) \o " " ELSE ""

MultiplicityArguments(mult) == IF mult # 1 THEN "--uhf " \o IntStr(mult) \o " " ELSE ""

CommandLine(prog, file, args) == prog \o " " \o Basename(file) \o " " \o args

-----------------------------------------------------------------------------
(* XtbCalculation.__init__, one action per call it makes *)

\* the locals of handle_specifications that outlive the loop
Locals(st) ==
    [accuracy |-> st.accuracy, iterations |-> st.iterations, method |-> st.method,
     opt_level |-> st.opt_level, rthr |-> st.rthr, ewin |-> st.ewin]

handle_command ==
    /\ pc = "handle_command"
    /\ program' = EXECUTABLES(calc.type)
    /\ specifications' = SeedSpecifications(calc.type)
    /\ cmd_arguments' = cmd_arguments \o SeedArguments(calc.type)
    /\ pc' = "handle_specifications"
    /\ UNCHANGED <<calc, option_file, force_constant, command, parsed, error,
                   arr, compressed, directives>>

handle_specifications ==
    /\ pc = "handle_specifications"
    /\ LET st == ParseAll(specifications, calc.specifications, cmd_arguments,
                          force_constant, calc.type)
       IN  /\ parsed' = Locals(st)
           /\ cmd_arguments' = st.cmd_arguments
           /\ force_constant' = st.force_constant
           /\ error' = st.error
           /\ pc' = IF st.error = NoError THEN "constraints" ELSE "raised"
    /\ UNCHANGED <<calc, program, option_file, specifications, command,
                   arr, compressed, directives>>

handle_constraints_crest ==
    /\ pc = "constraints"
    /\ calc.type = "CONSTR_CONF_SEARCH"
    /\ option_file' = option_file
           \o CrestOptions(calc.constraints, force_constant, calc.xyz, calc.file)
    /\ pc' = "handle_parameters"
    /\ UNCHANGED <<calc, program, cmd_arguments, specifications, force_constant,
                   command, parsed, error, arr, compressed, directives>>

handle_constraints_scan ==
    /\ pc = "constraints"
    /\ calc.type = "CONSTR_OPT"
    /\ option_file' = option_file \o ScanOptions(calc.constraints, force_constant)
    /\ pc' = "handle_parameters"
    /\ UNCHANGED <<calc, program, cmd_arguments, specifications, force_constant,
                   command, parsed, error, arr, compressed, directives>>

\* neither branch of the if / elif on the kind
no_constraints ==
    /\ pc = "constraints"
    /\ calc.type \notin {"CONSTR_CONF_SEARCH", "CONSTR_OPT"}
    /\ pc' = "handle_parameters"
    /\ UNCHANGED <<calc, program, cmd_arguments, option_file, specifications,
                   force_constant, command, parsed, error, arr, compressed, directives>>

handle_parameters ==
    /\ pc = "handle_parameters"
    /\ LET e == ParametersError(calc.solvent, calc.solvation_model)
       IN  IF e # NoError
           THEN /\ error' = e
                /\ pc' = "raised"
                /\ UNCHANGED cmd_arguments
           ELSE /\ cmd_arguments' = cmd_arguments
                       \o SolventArguments(calc.solvent, calc.solvation_model)
                       \o ChargeArguments(calc.charge)
                       \o MultiplicityArguments(calc.multiplicity)
                /\ pc' = "create_command"
                /\ UNCHANGED error
    /\ UNCHANGED <<calc, program, option_file, specifications, force_constant,
                   command, parsed, arr, compressed, directives>>

create_command ==
    /\ pc = "create_command"
    /\ command' = CommandLine(program, calc.file, cmd_arguments)
    /\ pc' = "done"
    /\ UNCHANGED <<calc, program, cmd_arguments, option_file, specifications,
                   force_constant, parsed, error, arr, compressed, directives>>

\* a call of compress_indices on its own
call_compress_indices ==
    /\ pc = "compress_indices"
    /\ compressed' = compress_indices(arr)
    /\ pc' = "returned"
    /\ UNCHANGED <<calc, program, cmd_arguments, option_file, specifications,
                   force_constant, command, parsed, error, arr, directives>>

-----------------------------------------------------------------------------
(* Requests *)

SeqsUpTo(S, n) == UNION {[1..k -> S] : k \in 0..n}

\* the user's text for a sequence of directives: "--d1 --d2"
UserText(ds) == Join([i \in 1..Len(ds) |-> "--" \o ds[i]], " ")

\* a geometry block of n lines
RECURSIVE Geometry(_)
Geometry(n) == IF n <= 1 THEN "C 0.0 0.0 0.0" ELSE Geometry(n - 1) \o "\nH 0.0 0.0 1.0"

Request(type, ds, solvent, model, charge, mult, cs, xyz) ==
    <<[type |-> type, specifications |-> UserText(ds), solvent |-> solvent,
       solvation_model |-> model, charge |-> charge, multiplicity |-> mult,
       constraints |-> cs, xyz |-> xyz, file |-> "calc/mol.xyz"],
      ds>>

\* a request with nothing but a kind and the user's directives
Plain(type, ds) == Request(type, ds, "", "gbsa", 0, 1, <<>>, Geometry(3))

Constraint(ids, scan, start, end, steps) ==
    [ids |-> ids, scan |-> scan, start_d |-> start, end_d |-> end, num_steps |-> steps]

\* the object as the first line of __init__ leaves it, for request r
Construct(r) ==
    /\ calc = r[1]
    /\ directives = r[2]
    /\ pc = "handle_command"
    /\ program = ""
    /\ cmd_arguments = ""
    /\ option_file = ""
    /\ specifications = ""
    /\ force_constant = FloatOfInt(1)
    /\ command = ""
    /\ parsed = Locals(ParserStart("", FloatOfInt(1)))
    /\ error = NoError
    /\ arr = <<>>
    /\ compressed = ""

MaxDirs == 2
MaxConstraints == 2
MaxLines == 5

Vocabulary ==
    {"gfn2", "gfn1", "gfnff", "gfn2//gfnff", "gfn 0", "gfn 3",
     "nci", "quick", "opt loose", "o normal", "opt bogus",
     "acc 0.015", "acc -1", "acc abc", "iterations 50", "iterations -1",
     "iterations abc", "forceconstant 1e-5", "forceconstant x",
     "rthr 0.5", "ewin 4", "bogus", "a b c"}

Solvents == {"", "water", "methanol", "unobtainium"}
SolvationModels == {"gbsa", "alpb", "cpcm"}

ConstraintPool ==
    {Constraint(<<1, 2>>, FALSE, 0, 0, 0), Constraint(<<2, 1>>, TRUE, 1, 2, 5),
     Constraint(<<2, 3, 4>>, TRUE, 3, 1, 10), Constraint(<<1, 4>>, FALSE, 0, 0, 0),
     Constraint(<<3, 4, 5, 6>>, FALSE, 0, 0, 0)}

ParserRequests == {Plain(t, ds) : t \in CalcTypes, ds \in SeqsUpTo(Vocabulary, MaxDirs)}

ParameterRequests ==
    {Request(t, <<>>, s, m, c, u, <<>>, Geometry(3)) :
        t \in CalcTypes, s \in Solvents, m \in SolvationModels,
        c \in {-1, 0, 1}, u \in {1, 2}}

ConstraintRequests ==
    {Request(t, ds, "", "gbsa", 0, 1, cs, Geometry(n)) :
        t \in {"CONSTR_OPT", "CONSTR_CONF_SEARCH"},
        ds \in {<<>>, <<"forceconstant 1e-5">>},
        cs \in SeqsUpTo(ConstraintPool, MaxConstraints),
        n \in 1..MaxLines}

Init == \E r \in ParserRequests \cup ParameterRequests \cup ConstraintRequests : Construct(r)

Next ==
    \/ handle_command
    \/ handle_specifications
    \/ handle_constraints_crest
    \/ handle_constraints_scan
    \/ no_constraints
    \/ handle_parameters
    \/ create_command

Spec == Init /\ [][Next]_vars

-----------------------------------------------------------------------------
(* compress_indices on its own: every short collection over a few values *)

MaxLen == 4
MaxIndex == 2

\* indices of one digit and of two, with runs that cross from 9 to 10
IndexValues == (0..MaxIndex) \cup {9, 10, 11}

\* a request that plays no part in a direct call
IdleRequest == Plain("SP", <<>>)

InitCompress ==
    \E a \in SeqsUpTo(IndexValues, MaxLen) :
        /\ arr = a
        /\ pc = "compress_indices"
        /\ compressed = ""
        /\ calc = IdleRequest[1]
        /\ directives = <<>>
        /\ program = ""
        /\ cmd_arguments = ""
        /\ option_file = ""
        /\ specifications = ""
        /\ force_constant = FloatOfInt(1)
        /\ command = ""
        /\ parsed = Locals(ParserStart("", FloatOfInt(1)))
        /\ error = NoError

NextCompress == call_compress_indices

SpecCompress == InitCompress /\ [][NextCompress]_vars

-----------------------------------------------------------------------------
(* Reading an "atoms" list back: the runs a text of the form "1-3,5,9-10" names *)

RunTexts(text) == IF text = "" THEN <<>> ELSE Split(text, ",")

\* <<first, last>> of one run text, "7" or "3-5"
RunBounds(t) == LET b == Split(t, "-") IN <<NatVal(b[1]), NatVal(b[Len(b)])>>

WellFormedRun(t) ==
    LET b == Split(t, "-")
    IN  /\ Len(b) \in {1, 2}
        /\ \A i \in 1..Len(b) : AllDigits(b[i]) /\ b[i] = NatStr(NatVal(b[i]))
        /\ Len(b) = 2 => NatVal(b[1]) < NatVal(b[2])

RunsOf(text) == [i \in 1..Len(RunTexts(text)) |-> RunBounds(RunTexts(text)[i])]

Covered(text) == UNION {RunsOf(text)[i][1]..RunsOf(text)[i][2] : i \in 1..Len(RunTexts(text))}

\* the maximal runs of consecutive integers of a set, as <<first, last>>
MaximalRuns(S) ==
    {r \in S \X S : /\ r[1] <= r[2]
                    /\ \A k \in r[1]..r[2] : k \in S
                    /\ r[1] - 1 \notin S
                    /\ r[2] + 1 \notin S}

-----------------------------------------------------------------------------
(* C6 *)

\* C6: compress_indices returns, for any collection of non-negative integers
\* (duplicates, any order), the comma-separated maximal runs of consecutive
\* integers of the set of its values, in ascending order: a run of one value as
\* that value, a longer run as "first-last".  Every value lies in exactly one
\* run, no other value is covered, adjacent runs cannot be merged, and the empty
\* collection gives the empty string; the text depends on the set alone.
C6_MaximalRuns ==
    pc = "returned" =>
        LET S == SeqToSet(arr)
            runs == RunsOf(compressed)
            n == Len(runs)
        IN  /\ \A i \in 1..n : WellFormedRun(RunTexts(compressed)[i])
            /\ \A v \in S : Cardinality({i \in 1..n : runs[i][1] <= v /\ v <= runs[i][2]}) = 1
            /\ Covered(compressed) = S
            /\ \A i \in 1..(n - 1) : runs[i][2] + 1 < runs[i + 1][1]
            /\ {runs[i] : i \in 1..n} = MaximalRuns(S)
            /\ S = {} <=> compressed = ""

\* a call with a duplicate, out of order, that gives a single value and a run
C6_Witness ==
    /\ pc = "returned"
    /\ Len(arr) > Cardinality(SeqToSet(arr))
    /\ \E i \in 1..(Len(arr) - 1) : arr[i] > arr[i + 1]
    /\ HasSub(compressed, ",")
    /\ HasSub(compressed, "-")
    /\ 10 \in SeqToSet(arr)

-----------------------------------------------------------------------------
(* Constrained conformer searches and constrained optimisations *)

CrestPool ==
    {Constraint(<<1, 2>>, FALSE, 0, 0, 0), Constraint(<<2, 1>>, FALSE, 0, 0, 0),
     Constraint(<<2, 3>>, FALSE, 0, 0, 0), Constraint(<<1, 3, 4>>, FALSE, 0, 0, 0),
     Constraint(<<4, 5>>, FALSE, 0, 0, 0), Constraint(<<3, 3>>, FALSE, 0, 0, 0)}

CrestRequests ==
    {Request("CONSTR_CONF_SEARCH", <<>>, "", "gbsa", 0, 1, cs, Geometry(n)) :
        cs \in SeqsUpTo(CrestPool, MaxConstraints), n \in 1..MaxLines}

InitCrest == \E r \in CrestRequests : Construct(r)

NextCrest ==
    \/ handle_command
    \/ handle_specifications
    \/ handle_constraints_crest
    \/ handle_parameters
    \/ create_command

SpecCrest == InitCrest /\ [][NextCrest]_vars

ScanPool ==
    {Constraint(<<1, 2>>, FALSE, 0, 0, 0), Constraint(<<2, 3>>, TRUE, 1, 2, 5),
     Constraint(<<1, 2, 3>>, TRUE, 90, 120, 10), Constraint(<<1, 2, 3, 4>>, FALSE, 0, 0, 0),
     Constraint(<<3, 4>>, TRUE, 3, 1, 12)}

ScanRequests ==
    {Request("CONSTR_OPT", ds, "", "gbsa", c, 1, cs, Geometry(4)) :
        ds \in {<<>>, <<"forceconstant 2.5">>}, c \in {0, 1},
        cs \in SeqsUpTo(ScanPool, MaxConstraints)}

InitScan == \E r \in ScanRequests : Construct(r)

NextScan ==
    \/ handle_command
    \/ handle_specifications
    \/ handle_constraints_scan
    \/ handle_parameters
    \/ create_command

SpecScan == InitScan /\ [][NextScan]_vars

\* the option file is written: the constraint encoder has run
Encoded == pc \in {"handle_parameters", "create_command", "done"}

\* the lines of a text in which every line ends with a line break
Lines(text) == LET p == Split(text, "\n") IN SubSeq(p, 1, Len(p) - 1)

\* the position of the line that reads exactly t, 0 when there is none
LineOf(ls, t) == IF \E i \in 1..Len(ls) : ls[i] = t
                 THEN CHOOSE i \in 1..Len(ls) : ls[i] = t /\ \A j \in 1..(i - 1) : ls[j] # t
                 ELSE 0

\* the list of an "atoms: ..." line
AtomsOf(line) == SubSeq(line, Len("atoms: ") + 1, Len(line))

-----------------------------------------------------------------------------
(* C7 *)

\* C7: for a constrained conformer search whose geometry has N lines and whose
\* constraints involve the atoms C (an atom may occur in several constraints),
\* the atoms line of $metadyn lists exactly {1..N-1} minus C and the atoms line
\* of $constrain lists exactly C; the two lists are disjoint, and when C lies
\* within 1..N-1 every index of 1..N-1 is in exactly one of them.
C7_MetadynComplement ==
    (Encoded /\ calc.type = "CONSTR_CONF_SEARCH") =>
        LET ls == Lines(option_file)
            m == LineOf(ls, "$metadyn")
            N == Count(calc.xyz, "\n") + 1
            C == UNION {SeqToSet(calc.constraints[i].ids) : i \in 1..Len(calc.constraints)}
            free == Covered(AtomsOf(ls[m + 1]))
            held == Covered(AtomsOf(ls[m - 1]))
        IN  /\ ls[1] = "$constrain"
            /\ m > 1 /\ m + 1 = Len(ls)
            /\ StartsAt(ls[m + 1], "atoms: ", 1)
            /\ StartsAt(ls[m - 1], "atoms: ", 1)
            /\ free = (1..(N - 1)) \ C
            /\ held = C
            /\ free \cap held = {}
            /\ C \subseteq 1..(N - 1) => free \cup held = 1..(N - 1)

\* two constraints that share an atom, in a geometry with free atoms left
C7_Witness ==
    /\ pc = "done"
    /\ calc.type = "CONSTR_CONF_SEARCH"
    /\ Len(calc.constraints) = 2
    /\ calc.constraints[1].ids = <<1, 2>>
    /\ calc.constraints[2].ids = <<2, 3>>
    /\ Count(calc.xyz, "\n") = 4
    /\ HasSub(option_file, "atoms: 1-3\n$metadyn\natoms: 4\n")

-----------------------------------------------------------------------------
(* C8 *)

\* the positions of the scanned constraints, ascending
ScannedPositions(cs) == Sorted({i \in 1..Len(cs) : cs[i].scan})

\* C8: for a constrained optimisation, no constraint gives an empty option
\* file; otherwise the file starts a $constrain section, followed by a $scan
\* section exactly when some constraint is scanned, and $scan has one line per
\* scanned constraint, in the original order, labelled with the constraint's
\* 1-based position among all constraints and carrying start, end and steps.
C8_ScanSection ==
    (Encoded /\ calc.type = "CONSTR_OPT") =>
        LET cs == calc.constraints
            ls == Lines(option_file)
            k == LineOf(ls, "$scan")
            pos == ScannedPositions(cs)
        IN  IF Len(cs) = 0 THEN option_file = ""
            ELSE /\ ls[1] = "$constrain"
                 /\ Count(option_file, "$constrain") = 1
                 /\ (k > 0) <=> (\E i \in 1..Len(cs) : cs[i].scan)
                 /\ k > 0 =>
                      /\ k > 1
                      /\ Count(option_file, "$scan") = 1
                      /\ Len(ls) - k = Len(pos)
                      /\ \A j \in 1..Len(pos) :
                           ls[k + j] = IntStr(pos[j]) \o ": "
                                       \o IntStr(cs[pos[j]].start_d) \o ", "
                                       \o IntStr(cs[pos[j]].end_d) \o ", "
                                       \o IntStr(cs[pos[j]].num_steps)

\* an unscanned constraint followed by a scanned one: the scan line is labelled 2
C8_Witness ==
    /\ pc = "done"
    /\ calc.type = "CONSTR_OPT"
    /\ Len(calc.constraints) = 2
    /\ ~calc.constraints[1].scan
    /\ calc.constraints[2].scan
    /\ HasSub(option_file, "$scan\n2: 1, 2, 5\n")

-----------------------------------------------------------------------------
(* Method directives, for every kind *)

SingleWords == {"gfn2", "gfn1", "gfn0", "gfnff", "gfn2//gfnff",
                "nci", "quick", "squick", "mquick"}

MethodRequests == {Plain(t, ds) : t \in CalcTypes, ds \in SeqsUpTo(SingleWords, MaxDirs)}

InitMethods == \E r \in MethodRequests : Construct(r)

SpecMethods == InitMethods /\ [][Next]_vars

\* handle_specifications has returned
Parsed == pc \in {"constraints", "handle_parameters", "create_command", "done"}

\* the method a method directive names, "" for any other directive
MethodNamed(d) ==
    CASE d \in {"gfn2", "gfn1", "gfn0"} -> "gfn " \o Char(d, 4)
      [] d \in {"gfnff", "gfn2//gfnff", "gfn 0", "gfn 1", "gfn 2"} -> d
      [] OTHER -> ""

\* the method of the last method directive, the initial one when there is none
LastMethod(ds) ==
    LET at == {i \in 1..Len(ds) : MethodNamed(ds[i]) # ""}
    IN  IF at = {} THEN "gfn2-xtb" ELSE MethodNamed(ds[Max(at)])

MethodNames == {"gfn 0", "gfn 1", "gfn 2", "gfnff", "gfn2//gfnff", "gfn2-xtb"}

\* the dashes in front of a flag in the arguments of a kind
Dash(type) == IF type \in ConfSearchTypes THEN "-" ELSE "--"

RECURSIVE SumOver(_, _, _)
SumOver(S, text, dash) ==
    IF S = {} THEN 0
    ELSE LET m == CHOOSE x \in S : TRUE
         IN  Count(text, dash \o m \o " ") + SumOver(S \ {m}, text, dash)

\* how many method fragments the arguments hold
MethodFragments(text, dash) == SumOver(MethodNames, text, dash)

\* the arguments name a method once, as the fragment for m, or not at all
\* when m is the default
MethodEmittedOnce(text, dash, m) ==
    IF m \in {"gfn2-xtb", "gfn 2"}
    THEN ~HasSub(text, "gfn")
    ELSE /\ MethodFragments(text, dash) = 1
         /\ Count(text, dash \o m \o " ") = 1
         /\ Count(text, "gfn") = Count(m, "gfn")

\* C2 as stated: for every kind and every text made of recognised single-word
\* directives the parse never fails, the method is the one of the last method
\* directive, and at most one method fragment is emitted, none for gfn 2.
\* Stated for the seven kinds whose seed is accepted, with the fragment read
\* after the conformer searches' rewrite of its dashes.
C2_NeverFails ==
    calc.type # "OPTFREQ" =>
        /\ pc # "raised"
        /\ Parsed =>
             /\ parsed.method = LastMethod(directives)
             /\ MethodEmittedOnce(cmd_arguments, Dash(calc.type), LastMethod(directives))

\* the requests of single-word directives that are refused
Refused(type, ds) ==
    \/ type = "OPTFREQ"
    \/ type \notin ConfSearchTypes /\ \E i \in 1..Len(ds) : ds[i] = "gfn2//gfnff"

\* C2, amended: for a text made of recognised single-word directives the parse
\* fails exactly when the kind is optimisation+frequency (whose own seed is
\* refused) or "gfn2//gfnff" is given to a kind that is no conformer search,
\* and then with an invalid-parameter error; otherwise the method is the one of
\* the last method directive and the arguments hold at most one method
\* fragment ("--<method> ", "-<method> " for the conformer searches), none
\* when the method is the default gfn 2.
C2_MethodSelection ==
    (Parsed \/ pc = "raised") =>
        IF Refused(calc.type, directives)
        THEN /\ pc = "raised"
             /\ error.type = "InvalidParameter"
             /\ error.msg = IF calc.type = "OPTFREQ"
                            THEN "Unknown specification: ohess"
                            ELSE "Invalid method for calculation type: gfn2//gfnff"
        ELSE /\ pc # "raised"
             /\ error = NoError
             /\ parsed.method = LastMethod(directives)
             /\ MethodEmittedOnce(cmd_arguments, Dash(calc.type), LastMethod(directives))

\* a later method directive has replaced an earlier one
C2_Witness ==
    /\ pc = "done"
    /\ calc.type = "SP"
    /\ directives = <<"gfn1", "gfnff">>
    /\ parsed.method = "gfnff"
    /\ command = "xtb mol.xyz --gfnff "

-----------------------------------------------------------------------------
(* Optimisation levels, for the two kinds seeded with "--opt " *)

OptWords == {"opt loose", "o normal", "Opt=VTight", "opt bogus",
             "nci", "gfn1", "acc 3.5", "iterations 50"}

OptRequests ==
    {Request(t, ds, s, "alpb", c, 1, <<>>, Geometry(3)) :
        t \in {"OPT", "CONSTR_OPT"}, ds \in SeqsUpTo(OptWords, MaxDirs),
        s \in {"", "water"}, c \in {0, 1}}

InitOpt == \E r \in OptRequests : Construct(r)

NextOpt ==
    \/ handle_command
    \/ handle_specifications
    \/ handle_constraints_scan
    \/ no_constraints
    \/ handle_parameters
    \/ create_command

SpecOpt == InitOpt /\ [][NextOpt]_vars

\* the level an o / opt directive names, "" for any other directive
LevelNamed(d) ==
    CASE d = "opt loose" -> "loose"
      [] d = "o normal" -> "normal"
      [] d = "Opt=VTight" -> "vtight"
      [] OTHER -> ""

\* the level of the last o / opt directive, "tight" when there is none
LastLevel(ds) ==
    LET at == {i \in 1..Len(ds) : LevelNamed(ds[i]) # ""}
    IN  IF at = {} THEN "tight" ELSE LevelNamed(ds[Max(at)])

\* the flags the directives of ds append while they are read
RECURSIVE FlagsOf(_)
FlagsOf(ds) ==
    IF Len(ds) = 0 THEN ""
    ELSE (IF ds[1] = "nci" THEN "--nci " ELSE "") \o FlagsOf(Tail(ds))

\* what a kind's seed emits after its "--opt "
AfterOpt(type) == IF type = "CONSTR_OPT" THEN "--input input " ELSE ""

\* every fragment but --opt that an accepted text of OptWords leaves
OtherFragments(type, ds) ==
    AfterOpt(type) \o FlagsOf(ds)
    \o (IF "acc 3.5" \in SeqToSet(ds) THEN "--acc 3.50 " ELSE "")
    \o (IF "iterations 50" \in SeqToSet(ds) THEN "--iterations 50 " ELSE "")
    \o (IF "gfn1" \in SeqToSet(ds) THEN "--gfn 1 " ELSE "")

\* C9: for an optimisation or a constrained optimisation, after a successful
\* parse the arguments hold exactly one "--opt" fragment, where the seed put
\* it: "--opt L " when the final level L (the last o / opt directive, "tight"
\* when there is none) is not "normal", the bare "--opt " when it is; every
\* other fragment is as it was emitted.
C9_OptFragment ==
    (Parsed /\ calc.type \in {"OPT", "CONSTR_OPT"}) =>
        LET L == LastLevel(directives)
            frag == IF L = "normal" THEN "--opt " ELSE "--opt " \o L \o " "
            args == frag \o OtherFragments(calc.type, directives)
        IN  /\ parsed.opt_level = L
            /\ Count(cmd_arguments, "--opt") = 1
            /\ StartsAt(cmd_arguments, args, 1)
            /\ pc \in {"constraints", "handle_parameters"} => cmd_arguments = args

\* "normal" overridden by a later level, in the seed that carries a second flag
C9_Witness ==
    /\ pc = "done"
    /\ calc.type = "CONSTR_OPT"
    /\ directives = <<"o normal", "opt loose">>
    /\ calc.charge = 1
    /\ command = "xtb mol.xyz --opt loose --input input --chrg 1 "

-----------------------------------------------------------------------------
(* Claims the builder does not keep: each formula states the claim and is   *)
(* violated by a reachable state of Spec.                                   *)

\* the directives of ds whose first word is one of keys, by position
Keyed(ds, keys) == {i \in 1..Len(ds) : SplitWords(ds[i])[1] \in keys}

\* the second word of the last directive of ds keyed by keys
LastValue(ds, keys) == SplitWords(ds[Max(Keyed(ds, keys))])[2]

\* the flags a request makes a kind that is no conformer search emit with "--"
DoubleDashFlags(c, ds) ==
    {w \in {"nci", "quick", "squick", "mquick"} : w \in SeqToSet(ds)}
    \cup (IF c.charge # 0 THEN {"chrg"} ELSE {})
    \cup (IF c.multiplicity # 1 THEN {"uhf"} ELSE {})
    \cup (IF c.solvent # "" /\ c.solvation_model = "alpb" THEN {"alpb"} ELSE {})
    \cup (IF c.type \in {"OPT", "CONSTR_OPT"} THEN {"opt"} ELSE {})
    \cup (IF c.type = "CONSTR_OPT" THEN {"input"} ELSE {})
    \cup (IF c.type = "FREQ" THEN {"hess"} ELSE {})

\* C1: for the two conformer-search kinds the final command holds no "--"
\* (solvent, charge and multiplicity flags included); for every other kind
\* each double-dash fragment that was emitted is in the final command as it
\* was emitted.
C1_SingleDash ==
    pc = "done" =>
        IF calc.type \in ConfSearchTypes
        THEN ~HasSub(command, "--")
        ELSE \A f \in DoubleDashFlags(calc, directives) : HasSub(command, "--" \o f \o " ")

\* C3: whatever makes the construction fail, the caller sees an
\* invalid-parameter error and no error of another kind.
C3_OnlyInvalidParameter == error.type \in {"none", "InvalidParameter"}

FlagNames == {"nci", "quick", "squick", "mquick", "acc", "iterations", "opt",
              "input", "hess", "rthr", "ewin", "cinp", "chrg", "uhf", "alpb"}

\* C4: after a parse without error the method, level, accuracy and iteration
\* cap are those of the last directive of their key; every accepted directive
\* that no later one overrides shows in the final arguments or in the option
\* file, and no flag is in the arguments twice.
C4_NothingDroppedOrDoubled ==
    pc = "done" =>
        LET ds == directives
            dash == Dash(calc.type)
            has(keys) == Keyed(ds, keys) # {}
        IN  /\ parsed.method = LastMethod(ds)
            /\ has({"o", "opt"}) => parsed.opt_level = LastValue(ds, {"o", "opt"})
            /\ has({"acc"}) => parsed.accuracy = FloatVal(LastValue(ds, {"acc"}))
            /\ has({"iterations"}) => parsed.iterations = IntVal(LastValue(ds, {"iterations"}))
            /\ has({"acc"}) =>
                 HasSub(cmd_arguments,
                        dash \o "acc " \o Fmt2f(FloatVal(LastValue(ds, {"acc"}))) \o " ")
            /\ has({"iterations"}) =>
                 HasSub(cmd_arguments,
                        dash \o "iterations " \o LastValue(ds, {"iterations"}) \o " ")
            /\ has({"o", "opt"}) =>
                 HasSub(cmd_arguments,
                        IF parsed.opt_level = "normal" THEN "--opt "
                        ELSE "--opt " \o parsed.opt_level \o " ")
            /\ LastMethod(ds) \notin {"gfn2-xtb", "gfn 2"} =>
                 HasSub(cmd_arguments, dash \o LastMethod(ds) \o " ")
            /\ \A w \in {"nci", "quick"} :
                 has({w}) => HasSub(cmd_arguments, dash \o w \o " ")
            /\ \A k \in {"rthr", "ewin"} :
                 has({k}) => HasSub(cmd_arguments, dash \o k \o " " \o LastValue(ds, {k}) \o " ")
            /\ has({"forceconstant"}) =>
                 HasSub(option_file,
                        "force constant="
                        \o FloatStr(FloatVal(LastValue(ds, {"forceconstant"}))) \o "\n")
            /\ \A f \in FlagNames : Count(cmd_arguments, dash \o f \o " ") <= 1

\* C5: "iterations n" is accepted for every integer n, and the final arguments
\* hold "--iterations n" for the last n given ("-iterations n" after the
\* conformer searches' rewrite); a second word that is no integer literal fails
\* with "Invalid number of iterations: must be an integer".  The kind whose
\* seed is refused before any user directive is read (C10) is left aside.
C5_IterationsEmitted ==
    (calc.type # "OPTFREQ" /\ Len(directives) > 0
     /\ \A i \in 1..Len(directives) : SplitWords(directives[i])[1] = "iterations") =>
        LET ints == \A i \in 1..Len(directives) : IsIntLiteral(SplitWords(directives[i])[2])
        IN  /\ (Parsed \/ pc = "raised") =>
                 IF ints THEN pc # "raised"
                 ELSE error = InvalidParameter("Invalid number of iterations: must be an integer")
            /\ (pc = "done" /\ ints) =>
                 HasSub(cmd_arguments,
                        Dash(calc.type) \o "iterations "
                        \o LastValue(directives, {"iterations"}) \o " ")

\* C10: for each of the eight kinds a request with no user directive, no
\* solvent, charge 0 and multiplicity 1 is built without error, and gives the
\* command "<executable> <file base name> <arguments>".
C10_DefaultsAccepted ==
    (directives = <<>> /\ calc.solvent = "" /\ calc.charge = 0 /\ calc.multiplicity = 1) =>
        /\ pc # "raised"
        /\ pc = "done" =>
             command = EXECUTABLES(calc.type) \o " mol.xyz " \o cmd_arguments

====
